---- MODULE Spec2Model ----
(***************************************************************************)
(* UQRC-LLM engine: Memory Store, Spectral Weight Engine, UQRC Operator    *)
(* Engine, Geometric Graph Engine, Stability Filter, Response Selector and *)
(* the UQRC_LLM facade.                                                    *)
(*                                                                         *)
(* Texts are sequences of one-character strings.  Real numbers are kept in *)
(* fixed point, in thousandths (1.0 is 1000): strengths, weights, scores,  *)
(* the field.  Phrase-match scores are exact fractions <<num, den>>.       *)
(***************************************************************************)
EXTENDS Integers, Sequences, FiniteSets, TLC

VARIABLES
    nodes,            \* MemoryStore.nodes: the Map, in insertion order
    edges,            \* MemoryStore.edges
    fieldState,       \* MemoryStore.fieldState
    stabilityHistory, \* MemoryStore.stabilityHistory
    storage,          \* localStorage['uqrc_llm_state']
    trainingLog,      \* UQRC_LLM.trainingLog
    storedLog,        \* localStorage['uqrc_training_log']
    now,              \* the reading of Date.now()
    pc,               \* "idle", or "fallback" while getFallbackResponse walks
    walk,             \* the locals of getFallbackResponse
    history           \* the public calls made so far, with their results

vars == <<nodes, edges, fieldState, stabilityHistory, storage, trainingLog,
          storedLog, now, pc, walk, history>>

-----------------------------------------------------------------------------
(* Bounds of the model                                                     *)

MaxCalls == 3
MaxClock == 1
MaxStoreCalls == 4
MaxFieldCalls == 6
MaxLogCalls == 101
MaxFilterCalls == 5
MaxAgingCalls == 7

-----------------------------------------------------------------------------
(* Characters and strings                                                  *)

Milli == 10 * 100

Whitespace == {" ", "\t", "\n"}

UpperToLower ==
    [A |-> "a", B |-> "b", C |-> "c", H |-> "h"]

\* String.prototype.toLowerCase, one character
LowerChar(ch) ==
    IF ch \in DOMAIN UpperToLower THEN UpperToLower[ch] ELSE ch

\* String.prototype.charCodeAt, for the characters the inputs use
CharCode(ch) ==
    CASE ch = " " -> 32
      [] ch = "!" -> 33
      [] ch = "." -> 46
      [] ch = "A" -> 65
      [] ch = "B" -> 66
      [] ch = "C" -> 67
      [] ch = "H" -> 72
      [] ch = "_" -> 95
      [] ch = "a" -> 97
      [] ch = "b" -> 98
      [] ch = "c" -> 99
      [] ch = "e" -> 101
      [] ch = "h" -> 104
      [] ch = "i" -> 105
      [] ch = "l" -> 108
      [] ch = "o" -> 111
      [] ch = "r" -> 114
      [] ch = "t" -> 116
      [] ch = "\t" -> 9
      [] ch = "\n" -> 10

ToLowerCase(s) == [i \in 1..Len(s) |-> LowerChar(s[i])]

\* the least and the greatest member of a nonempty set of numbers, and the
\* k-th member in increasing order
MinOf(I) == CHOOSE i \in I : \A j \in I : i <= j
MaxOf(I) == CHOOSE i \in I : \A j \in I : j <= i
KthOf(I, k) == CHOOSE i \in I : Cardinality({j \in I : j <= i}) = k

\* the least member of a set of positions, or 0 when there is none
FirstOf(I) == IF I = {} THEN 0 ELSE MinOf(I)

\* String.prototype.trim
Span(s, I) == IF I = {} THEN <<>> ELSE SubSeq(s, MinOf(I), MaxOf(I))

Trim(s) == Span(s, {i \in 1..Len(s) : s[i] \notin Whitespace})

\* String.prototype.includes
Includes(s, sub) ==
    \E i \in 0..(Len(s) - Len(sub)) : SubSeq(s, i + 1, i + Len(sub)) = sub

\* the first and the last positions of the maximal whitespace runs of s
RunStarts(s) ==
    {i \in 1..Len(s) : s[i] \in Whitespace /\ (i = 1 \/ s[i - 1] \notin Whitespace)}
RunEnds(s) ==
    {i \in 1..Len(s) :
        s[i] \in Whitespace /\ (i = Len(s) \/ s[i + 1] \notin Whitespace)}

\* String.prototype.split(/\s+/): the pieces between maximal whitespace runs,
\* empty pieces at either end included
SplitWhitespace(s) ==
    LET starts == RunStarts(s)
        ends == RunEnds(s)
        runs == Cardinality(starts)
    IN  [k \in 1..(runs + 1) |->
            SubSeq(s, IF k = 1 THEN 1 ELSE KthOf(ends, k - 1) + 1,
                      IF k = runs + 1 THEN Len(s) ELSE KthOf(starts, k) - 1)]

\* String.prototype.replace(/\s+/g, '_')
ReplaceWhitespaceRuns(s) ==
    LET kept == {i \in 1..Len(s) : s[i] \notin Whitespace} \cup RunStarts(s)
    IN  [k \in 1..Cardinality(kept) |->
            LET c == s[KthOf(kept, k)]
            IN  IF c \in Whitespace THEN "_" ELSE c]

\* Array.prototype.join(' ') over strings
RECURSIVE JoinSpace(_)
JoinSpace(ss) ==
    IF ss = <<>> THEN <<>>
    ELSE IF Len(ss) = 1 THEN ss[1]
    ELSE ss[1] \o <<" ">> \o JoinSpace(Tail(ss))

Abs(x) == IF x < 0 THEN -x ELSE x
Min2(a, b) == IF a < b THEN a ELSE b
Max2(a, b) == IF a > b THEN a ELSE b

\* a / b of two fixed-point or plain numbers, truncated toward zero
Quot(a, b) == IF a >= 0 THEN a \div b ELSE -((-a) \div b)

\* the sum of a list of numbers
RECURSIVE SumSeq(_)
SumSeq(xs) ==
    IF xs = <<>> THEN 0
    ELSE IF Len(xs) = 1 THEN xs[1]
    ELSE SumSeq(SubSeq(xs, 1, Len(xs) \div 2))
         + SumSeq(SubSeq(xs, Len(xs) \div 2 + 1, Len(xs)))

\* Array.prototype.slice(-k)
LastK(xs, k) ==
    IF Len(xs) <= k THEN xs ELSE SubSeq(xs, Len(xs) - k + 1, Len(xs))

\* one statement after another: op applied to the value of x, with x
\* evaluated first
Bind(x, op(_)) == CHOOSE y \in {op(v) : v \in {x}} : TRUE

-----------------------------------------------------------------------------
(* Module 2: Spectral Weight Engine                                        *)

calculateLengthWeight(content) == Min2(Len(content) * 100, Milli)

calculateCharIndexWeight(content) ==
    IF Len(content) = 0 THEN 0
    ELSE Quot(SumSeq([i \in 1..Len(content) |->
                        Quot((CharCode(content[i]) % 128) * Milli, 128)]),
              Len(content))

calculateInitialStabilityWeight == 10 * 100

calculateInitialUsageWeight == 10 * 100

\* 31^k modulo 2^32 for k = 0..7, as the two 16-bit halves <<hi, lo>>
Pow31 ==
    <<<<0, 1>>, <<0, 31>>, <<0, 961>>, <<0, 29791>>, <<14, 6017>>,
      <<436, 55455>>, <<13542, 15169>>, <<26593, 11487>>>>

\* hash = ((hash << 5) - hash + code) | 0 over the characters of content (at
\* most 8): the sum of code[i] * 31^(n - i) modulo 2^32, as the two 16-bit
\* halves hi and lo of the unsigned 32-bit pattern, before their reduction
HashLow(content) ==
    SumSeq([i \in 1..Len(content) |->
               CharCode(content[i]) * Pow31[Len(content) - i + 1][2]])

HashHigh(content, lo) ==
    SumSeq([i \in 1..Len(content) |->
               CharCode(content[i]) * Pow31[Len(content) - i + 1][1]])
    + (lo \div 65536)

\* the signed 32-bit value of the pattern of the halves hi and lo
Signed32(hi, lo) ==
    IF hi % 65536 < 32768 THEN (hi % 65536) * 65536 + (lo % 65536)
    ELSE ((hi % 65536) - 65536) * 65536 + (lo % 65536)

HashOf(content, lo) == Signed32(HashHigh(content, lo), lo)

HashValue(content) == HashOf(content, HashLow(content))

\* Math.tanh in thousandths, of an argument in thousandths: tabulated every
\* 0.25 and interpolated linearly; 1.0 from 4.5 on
TanhTable ==
    <<0, 245, 462, 635, 762, 848, 905, 941, 964, 978, 987, 992, 995, 997,
      998, 999, 999, 1000, 1000>>

TanhOfAbs(a, k) ==
    IF k >= 18 THEN 1000
    ELSE TanhTable[k + 1]
         + Quot((TanhTable[k + 2] - TanhTable[k + 1]) * (a % 250), 250)

TanhMilli(x) ==
    IF x < 0 THEN -TanhOfAbs(Abs(x), Abs(x) \div 250)
    ELSE TanhOfAbs(Abs(x), Abs(x) \div 250)

calculateCurvatureSignature(content) ==
    TanhMilli(Quot(HashValue(content), 1000))

-----------------------------------------------------------------------------
(* Module 1: Memory Store                                                  *)
(*                                                                         *)
(* A store value S is the record of the MemoryStore's fields together with *)
(* the persisted snapshot; the operations take S and give the S after.     *)

\* parentId: null, and the `undefined` of a failed lookup
Null == <<"null", <<>>, 0>>

NoSnapshot == [present |-> FALSE]

DeadFieldState == [u |-> 0, gradients |-> <<>>, curvature |-> 0, stability |-> Milli]

\* the configuration of the constructor
nu == 100
lambda == 50
minLengthThreshold == 100
curvatureThreshold == 2000
stabilityThreshold == 300

\* `${type}_${content.toLowerCase().replace(/\s+/g, '_')}_${Date.now()}`
generateId(content, type, t) ==
    <<type, ReplaceWhitespaceRuns(ToLowerCase(content)), t>>

\* Map.prototype.get by position: the index of the entry with key id, or 0
IndexOfId(ns, id) ==
    IF \E i \in 1..Len(ns) : ns[i].id = id
    THEN CHOOSE i \in 1..Len(ns) : ns[i].id = id
    ELSE 0

HasNode(ns, id) == IndexOfId(ns, id) # 0

getNode(ns, id) == ns[IndexOfId(ns, id)]

\* Map.prototype.set: an existing key keeps its place
MapSet(ns, node) ==
    IF HasNode(ns, node.id)
    THEN [ns EXCEPT ![IndexOfId(ns, node.id)] = node]
    ELSE Append(ns, node)

\* findNodeByContent comparing the lowercased contents untrimmed
findNodeByContentMissingTrim(ns, content) ==
    FirstOf({i \in 1..Len(ns) : ToLowerCase(ns[i].content) = ToLowerCase(content)})

\* the index of the first node whose normalized content is that of `content`, or 0
findNodeByContent(ns, content) ==
    FirstOf({i \in 1..Len(ns) :
                Trim(ToLowerCase(ns[i].content)) = Trim(ToLowerCase(content))})

\* Map.prototype.set on a linkStrengths map kept as a list of <<id, strength>>
LinkSet(ls, id, strength) ==
    IF \E i \in 1..Len(ls) : ls[i][1] = id
    THEN [i \in 1..Len(ls) |-> IF ls[i][1] = id THEN <<id, strength>> ELSE ls[i]]
    ELSE Append(ls, <<id, strength>>)

\* Array.from(node.linkStrengths.entries()): the [key, value] pairs in
\* insertion order
Entries(ls) == [k \in 1..Len(ls) |-> <<ls[k][1], ls[k][2]>>]

\* new Map(entries): a key that comes again keeps its place and takes the
\* later value
RECURSIVE MapOf(_)
MapOf(entries) ==
    IF entries = <<>> THEN <<>>
    ELSE LinkSet(MapOf(SubSeq(entries, 1, Len(entries) - 1)),
                 entries[Len(entries)][1], entries[Len(entries)][2])

\* JSON.stringify of the state, link-strength maps as entry lists
Serialize(S) ==
    [present |-> TRUE,
     nodes |-> [i \in 1..Len(S.nodes) |->
                  [S.nodes[i] EXCEPT !.linkStrengths = Entries(@)]],
     edges |-> S.edges,
     fieldState |-> S.fieldState,
     stabilityHistory |-> S.stabilityHistory]

save(S) == [S EXCEPT !.storage = Serialize(S)]

\* the node createNode builds for a content that is not stored
NewNode(S, content, type, parentId, t) ==
    [id |-> generateId(content, type, t),
     content |-> content,
     type |-> type,
     lengthWeight |-> calculateLengthWeight(content),
     charIndexWeight |-> calculateCharIndexWeight(content),
     stabilityWeight |-> calculateInitialStabilityWeight,
     usageWeight |-> calculateInitialUsageWeight,
     curvatureSignature |-> calculateCurvatureSignature(content),
     fieldValue |-> S.fieldState.u,
     parentId |-> parentId,
     childIds |-> <<>>,
     linkStrengths |-> <<>>,
     createdAt |-> t,
     lastUsedAt |-> t]

\* the nodes once ns holds node: the parent, if stored, lists it as a child
ListAsChild(ns, node) ==
    IF node.parentId # Null /\ HasNode(ns, node.parentId)
    THEN [ns EXCEPT ![IndexOfId(ns, node.parentId)].childIds = Append(@, node.id)]
    ELSE ns

\* createNode once findNodeByContent gave e, the index of the existing node or 0
createNodeAt(S, e, node, t) ==
    IF e # 0
    THEN [S |-> save([S EXCEPT !.nodes[e].usageWeight = @ + Milli,
                               !.nodes[e].lastUsedAt = t]),
          id |-> S.nodes[e].id]
    ELSE [S |-> save([S EXCEPT !.nodes = ListAsChild(MapSet(S.nodes, node), node)]),
          id |-> node.id]

\* gives [S |-> the store after, id |-> the id of the node returned]
createNode(S, content, type, parentId, t) ==
    createNodeAt(S, findNodeByContent(S.nodes, content),
                 NewNode(S, content, type, parentId, t), t)

\* Array.prototype.find on the edges: the index of the first edge of the pair, or 0
IndexOfEdge(es, fromId, toId) ==
    FirstOf({i \in 1..Len(es) : es[i].fromId = fromId /\ es[i].toId = toId})

EdgeCurvature(ns, fromId, toId) ==
    Abs(getNode(ns, fromId).curvatureSignature - getNode(ns, toId).curvatureSignature)

\* createEdge without the lookup of an existing edge of the pair
createEdgeAlwaysPush(S, fromId, toId, isSequential) ==
    IF HasNode(S.nodes, fromId) /\ HasNode(S.nodes, toId)
    THEN save([S EXCEPT !.edges = Append(@,
                  [fromId |-> fromId, toId |-> toId, strength |-> Milli,
                   curvature |-> EdgeCurvature(S.nodes, fromId, toId),
                   isSequential |-> isSequential])])
    ELSE save(S)

\* both ends of a new edge record each other's strength
LinkBoth(ns, edge) ==
    [ns EXCEPT
       ![IndexOfId(ns, edge.fromId)].linkStrengths =
           LinkSet(@, edge.toId, edge.strength),
       ![IndexOfId(ns, edge.toId)].linkStrengths =
           LinkSet(@, edge.fromId, edge.strength)]

\* createEdge once the lookup gave x, the index of the existing edge or 0
createEdgeAt(S, x, both, fromId, toId, isSequential) ==
    IF x # 0
    THEN save([S EXCEPT
             !.edges[x].strength = @ + 100,
             !.edges[x].curvature =
                 IF both THEN EdgeCurvature(S.nodes, fromId, toId) ELSE @])
    ELSE IF both
         THEN save([S EXCEPT
                  !.edges = Append(S.edges,
                                   [fromId |-> fromId, toId |-> toId,
                                    strength |-> Milli,
                                    curvature |-> EdgeCurvature(S.nodes, fromId, toId),
                                    isSequential |-> isSequential]),
                  !.nodes = LinkBoth(S.nodes, [fromId |-> fromId, toId |-> toId,
                                               strength |-> Milli])])
         ELSE save(S)

createEdge(S, fromId, toId, isSequential) ==
    createEdgeAt(S, IndexOfEdge(S.edges, fromId, toId),
                 HasNode(S.nodes, fromId) /\ HasNode(S.nodes, toId),
                 fromId, toId, isSequential)

\* the sequential edges out of nodeId, in edge order
getSequentialEdges(es, nodeId) ==
    SelectSeq(es, LAMBDA e : e.fromId = nodeId /\ e.isSequential)

\* Set insertion order of the neighbor ids: edge by edge the far end of an edge
\* out of nodeId, then the far end of an edge into it, first occurrences only
NeighborIds(es, nodeId) ==
    LET added == [k \in 1..(2 * Len(es)) |->
                     LET e == es[(k + 1) \div 2]
                     IN  IF k % 2 = 1
                         THEN (IF e.fromId = nodeId THEN e.toId ELSE Null)
                         ELSE (IF e.toId = nodeId THEN e.fromId ELSE Null)]
        first == {k \in 1..Len(added) :
                     added[k] # Null /\ \A j \in 1..(k - 1) : added[j] # added[k]}
    IN  [n \in 1..Cardinality(first) |-> added[KthOf(first, n)]]

\* the ids of the neighbors that resolve to a node
getNeighbors(S, nodeId) ==
    SelectSeq(NeighborIds(S.edges, nodeId), LAMBDA id : HasNode(S.nodes, id))

\* the ids of the phrase nodes, in Map order
getPhraseNodes(ns) ==
    LET ps == SelectSeq(ns, LAMBDA n : n.type = "phrase")
    IN  [i \in 1..Len(ps) |-> ps[i].id]

updateNodeFieldValue(S, nodeId, fieldValue) ==
    IF HasNode(S.nodes, nodeId)
    THEN save([S EXCEPT !.nodes[IndexOfId(S.nodes, nodeId)].fieldValue = fieldValue])
    ELSE S

\* updateFieldState without the shift of a history longer than 20
updateFieldStateNoShift(S, newState) ==
    save([S EXCEPT !.fieldState = newState,
                   !.stabilityHistory = Append(@, newState.stability)])

\* updateFieldState recording the new u in the stability history
updateFieldStatePushesU(S, newState) ==
    LET h == Append(S.stabilityHistory, newState.u)
    IN  save([S EXCEPT !.fieldState = newState,
                       !.stabilityHistory = IF Len(h) > 20 THEN Tail(h) ELSE h])

updateFieldState(S, newState) ==
    LET h == Append(S.stabilityHistory, newState.stability)
    IN  save([S EXCEPT !.fieldState = newState,
                       !.stabilityHistory = IF Len(h) > 20 THEN Tail(h) ELSE h])

\* clear leaving the stability history as it is
clearKeepsHistory(S) ==
    [nodes |-> <<>>, edges |-> <<>>, fieldState |-> DeadFieldState,
     stabilityHistory |-> S.stabilityHistory, storage |-> NoSnapshot]

clear(S) ==
    [nodes |-> <<>>, edges |-> <<>>, fieldState |-> DeadFieldState,
     stabilityHistory |-> <<>>, storage |-> NoSnapshot]

\* what localStorage may hold that is no snapshot of a store: a text that
\* JSON.parse rejects, and in a list of node records a null
GarbledSnapshot == [present |-> TRUE, text |-> "{"]

JsonNull == [null |-> TRUE]

\* the index of the first element of recs that is not a node record, or 0
FirstBad(recs) == FirstOf({i \in 1..Len(recs) : recs[i] = JsonNull})

\* the loop of load over node records: each one, its link strengths a Map
\* again, is set under its id
RECURSIVE LoadNodes(_)
LoadNodes(recs) ==
    IF recs = <<>> THEN <<>>
    ELSE MapSet(LoadNodes(SubSeq(recs, 1, Len(recs) - 1)),
                [recs[Len(recs)] EXCEPT !.linkStrengths = MapOf(@)])

\* load assigning every field but the stability history
loadWithoutHistory(E, snap) ==
    IF ~snap.present \/ snap = GarbledSnapshot THEN E
    ELSE IF FirstBad(snap.nodes) # 0
    THEN [E EXCEPT !.nodes = LoadNodes(SubSeq(snap.nodes, 1, FirstBad(snap.nodes) - 1))]
    ELSE [E EXCEPT !.nodes = LoadNodes(snap.nodes),
                   !.edges = snap.edges,
                   !.fieldState = snap.fieldState]

\* MemoryStore.load into the store E the constructor has built: nothing is
\* stored, or JSON.parse throws, or the loop throws at the first element that
\* is no record and the catch leaves what was assigned so far, or all loads
load(E, snap) ==
    IF ~snap.present \/ snap = GarbledSnapshot THEN E
    ELSE IF FirstBad(snap.nodes) # 0
    THEN [E EXCEPT !.nodes = LoadNodes(SubSeq(snap.nodes, 1, FirstBad(snap.nodes) - 1))]
    ELSE [E EXCEPT !.nodes = LoadNodes(snap.nodes),
                   !.edges = snap.edges,
                   !.fieldState = snap.fieldState,
                   !.stabilityHistory = snap.stabilityHistory]

\* new MemoryStore() over what localStorage holds
construct(snap) ==
    load([nodes |-> <<>>, edges |-> <<>>, fieldState |-> DeadFieldState,
          stabilityHistory |-> <<>>, storage |-> snap], snap)

-----------------------------------------------------------------------------
(* Module 3: UQRC Operator Engine                                          *)

discreteDerivative(values) ==
    IF Len(values) < 2 THEN <<0>>
    ELSE [i \in 1..(Len(values) - 1) |-> values[i + 1] - values[i]]

calculateCurvature(fieldValues) ==
    IF Len(fieldValues) < 3 THEN 0
    ELSE LET d2 == discreteDerivative(discreteDerivative(fieldValues))
         IN  Quot(SumSeq([i \in 1..Len(d2) |-> Abs(d2[i])]), Max2(Len(d2), 1))

laplacianSmoothing(fieldValue, neighbors) ==
    IF Len(neighbors) = 0 THEN 0
    ELSE Quot(SumSeq(neighbors), Len(neighbors)) - fieldValue

curvatureInfluence(node, neighborCurvatures) ==
    IF Len(neighborCurvatures) = 0 THEN 0
    ELSE Quot(node.curvatureSignature
                * Quot(SumSeq(neighborCurvatures), Len(neighborCurvatures)),
              Milli)

linguisticStability(node) ==
    Quot(Quot(node.usageWeight * node.stabilityWeight, Milli), 10)

secondGradientStability(hist) ==
    IF Len(hist) < 3 THEN 0
    ELSE LET d2 == discreteDerivative(discreteDerivative(hist))
         IN  Quot(SumSeq([i \in 1..Len(d2) |-> Quot(d2[i] * d2[i], Milli)]),
                  Max2(Len(d2), 1))

evolve(node, neighborFieldValues, neighborCurvatures) ==
    Quot(nu * laplacianSmoothing(node.fieldValue, neighborFieldValues), Milli)
    + curvatureInfluence(node, neighborCurvatures)
    + linguisticStability(node)

updateField(currentState, node, neighborFieldValues, neighborCurvatures, hist) ==
    LET evolution == evolve(node, neighborFieldValues, neighborCurvatures)
        derivativeSum == SumSeq(currentState.gradients)
        secondGradient == secondGradientStability(hist)
        newU == currentState.u + evolution + derivativeSum
                + Quot(lambda * secondGradient, Milli)
        ramp == [i \in 1..Len(currentState.gradients) |-> (i - 1) * Milli]
    IN  [u |-> newU,
         gradients |-> LastK(Append(currentState.gradients, newU - currentState.u), 10),
         curvature |-> calculateCurvature(Append(ramp, newU)),
         stability |-> Quot(Milli * Milli, Milli + Abs(secondGradient))]

-----------------------------------------------------------------------------
(* Module 4: Geometric Graph Engine                                        *)

Punctuation == {".", ",", "!", "?", ";", ":", "'", "\"", "(", ")", "-"}

WordChars ==
    {"a", "b", "c", "e", "h", "i", "l", "o", "r", "t", "A", "B", "C", "H"}

isPunctuation(ch) == ch \in Punctuation

isWord(token) == token # <<>> /\ \A i \in 1..Len(token) : token[i] \in WordChars

\* tokenize: every punctuation character is a token, and so is every maximal
\* run of characters that are neither punctuation nor a space
tokenize(text) ==
    LET inWord(i) == ~isPunctuation(text[i]) /\ text[i] # " "
        starts == {i \in 1..Len(text) :
                      \/ isPunctuation(text[i])
                      \/ inWord(i) /\ (i = 1 \/ ~inWord(i - 1))}
        endOf(i) == MaxOf({j \in i..Len(text) : \A k \in i..j : inWord(k)})
    IN  [n \in 1..Cardinality(starts) |->
            LET i == KthOf(starts, n)
            IN  IF isPunctuation(text[i]) THEN <<text[i]>>
                ELSE SubSeq(text, i, endOf(i))]

\* the two `if`s of the loop body of establishParenthood for one existing phrase
\* new phrase contains existing phrase: existing is parent
AdoptParent(S, newId, existingId) ==
    LET n == IndexOfId(S.nodes, newId)
        x == IndexOfId(S.nodes, existingId)
        content == ToLowerCase(S.nodes[n].content)
        existingContent == ToLowerCase(S.nodes[x].content)
    IN  IF Includes(content, existingContent) /\ content # existingContent
           /\ S.nodes[n].parentId = Null
        THEN createEdge([S EXCEPT !.nodes[n].parentId = existingId,
                                  !.nodes[x].childIds = Append(@, newId)],
                        existingId, newId, FALSE)
        ELSE S

\* existing phrase contains new phrase: new is child of existing
AdoptChild(S, newId, existingId) ==
    LET n == IndexOfId(S.nodes, newId)
        x == IndexOfId(S.nodes, existingId)
        content == ToLowerCase(S.nodes[n].content)
        existingContent == ToLowerCase(S.nodes[x].content)
    IN  IF Includes(existingContent, content) /\ content # existingContent
           /\ ~(\E k \in 1..Len(S.nodes[x].childIds) :
                    S.nodes[x].childIds[k] = newId)
        THEN createEdge([S EXCEPT !.nodes[x].childIds = Append(@, newId),
                                  !.nodes[n].parentId = existingId],
                        existingId, newId, FALSE)
        ELSE S

\* the loop of establishParenthood, over the phrases listed at entry
RECURSIVE ParenthoodFrom(_, _, _, _)
ParenthoodFrom(S, newId, allPhrases, i) ==
    IF i > Len(allPhrases) THEN S
    ELSE IF allPhrases[i] = newId THEN ParenthoodFrom(S, newId, allPhrases, i + 1)
    ELSE Bind(AdoptChild(AdoptParent(S, newId, allPhrases[i]), newId, allPhrases[i]),
              LAMBDA S2 : ParenthoodFrom(S2, newId, allPhrases, i + 1))

establishParenthood(S, newId) ==
    ParenthoodFrom(S, newId, getPhraseNodes(S.nodes), 1)

\* the body of the token loop of processInput for one token: [S, id]
IngestToken(S, phraseId, token, prev, t) ==
    LET c == createNode(S, token, IF isWord(token) THEN "word" ELSE "punctuation",
                        Null, t)
        S1 == createEdge(c.S, phraseId, c.id, FALSE)
        S2 == IF prev # Null THEN createEdge(S1, prev, c.id, TRUE) ELSE S1
    IN  [S |-> S2, id |-> c.id]

\* the token loop of processInput; r is [S, created], prev the previous token's
\* node id or Null
RECURSIVE TokensFrom(_, _, _, _, _, _)
TokensFrom(r, phraseId, tokens, i, prev, t) ==
    IF i > Len(tokens) THEN r
    ELSE Bind(IngestToken(r.S, phraseId, tokens[i], prev, t), LAMBDA c :
              TokensFrom([S |-> c.S, created |-> Append(r.created, c.id)],
                         phraseId, tokens, i + 1, c.id, t))

\* processInput after the trim and its guard
IngestPhrase(S, text, t) ==
    Bind(createNode(S, text, "phrase", Null, t), LAMBDA p :
    Bind(TokensFrom([S |-> p.S, created |-> <<p.id>>], p.id,
                    tokenize(text), 1, Null, t), LAMBDA r :
    [S |-> establishParenthood(r.S, p.id), created |-> r.created]))

\* processInput without the trim of its first line
processInputUntrimmed(S, input, t) ==
    IF input = <<>> THEN [S |-> S, created |-> <<>>]
    ELSE IngestPhrase(S, input, t)

\* gives [S |-> the store after, created |-> the ids of createdNodes]
processInput(S, input, t) ==
    IF Trim(input) = <<>> THEN [S |-> S, created |-> <<>>]
    ELSE IngestPhrase(S, Trim(input), t)

\* Array.prototype.find(n => n.type === 'phrase') over created ids, or Null
FindPhrase(ns, ids) ==
    LET hits == {i \in 1..Len(ids) : getNode(ns, ids[i]).type = "phrase"}
    IN  IF hits = {} THEN Null
        ELSE ids[CHOOSE i \in hits : \A j \in hits : i <= j]

\* processTrainingPair without the link from the prompt to the response
processTrainingPairNoLink(S, prompt, response, t) ==
    Bind(processInput(S, prompt, t), LAMBDA a : processInput(a.S, response, t).S)

processTrainingPair(S, prompt, response, t) ==
    Bind(processInput(S, prompt, t), LAMBDA a :
    Bind(processInput(a.S, response, t), LAMBDA b :
    LET promptPhrase == FindPhrase(b.S.nodes, a.created)
        responsePhrase == FindPhrase(b.S.nodes, b.created)
    IN  IF Len(a.created) > 0 /\ Len(b.created) > 0
           /\ promptPhrase # Null /\ responsePhrase # Null
        THEN createEdge(b.S, promptPhrase, responsePhrase, TRUE)
        ELSE b.S))

\* Array.prototype.sort((a, b) => b.key - a.key), stable: items are records
\* with an integer field key; an item goes behind the items of a greater key and
\* the earlier items of its own key
SortByKeyDesc(items) ==
    LET ahead(i) == {j \in 1..Len(items) :
                        \/ items[j].key > items[i].key
                        \/ items[j].key = items[i].key /\ j < i}
    IN  [r \in 1..Len(items) |->
            items[CHOOSE i \in 1..Len(items) : Cardinality(ahead(i)) = r - 1]]

\* the same for items whose field score is a fraction <<num, den>>, den > 0
FracLess(a, b) == a[1] * b[2] < b[1] * a[2]

SortByScoreDesc(items) ==
    LET ahead(i) == {j \in 1..Len(items) :
                        \/ FracLess(items[i].score, items[j].score)
                        \/ /\ ~FracLess(items[j].score, items[i].score)
                           /\ j < i}
    IN  [r \in 1..Len(items) |->
            items[CHOOSE i \in 1..Len(items) : Cardinality(ahead(i)) = r - 1]]

\* the ranking key of getStrongestLink's comparator for one sequential edge
LinkScore(ns, e, fromNodeId) ==
    IF HasNode(ns, e.toId)
    THEN e.strength
         + (IF getNode(ns, e.toId).parentId = fromNodeId THEN 0 ELSE 500)
         + Quot(getNode(ns, e.toId).stabilityWeight * 200, Milli)
    ELSE e.strength

\* the id of the strongest sequentially linked node, or Null
FirstLinked(ns, ranked) ==
    IF Len(ranked) = 0 THEN Null
    ELSE IF HasNode(ns, ranked[1].toId) THEN ranked[1].toId ELSE Null

RankLinks(ns, es, fromNodeId) ==
    SortByKeyDesc([i \in 1..Len(es) |->
        [toId |-> es[i].toId, key |-> LinkScore(ns, es[i], fromNodeId)]])

getStrongestLink(S, fromNodeId) ==
    FirstLinked(S.nodes,
                RankLinks(S.nodes, getSequentialEdges(S.edges, fromNodeId), fromNodeId))

\* the score findMatchingPhrases gives one phrase: [matched, score]
MatchScore(phraseContent, normalized) ==
    IF phraseContent = normalized
    THEN [matched |-> TRUE, score |-> <<1, 1>>]
    ELSE IF Includes(phraseContent, normalized) \/ Includes(normalized, phraseContent)
    THEN [matched |-> TRUE,
          score |-> <<Min2(Len(phraseContent), Len(normalized)),
                      Max2(Len(phraseContent), Len(normalized))>>]
    ELSE LET inputList == SplitWhitespace(normalized)
             inputWords == {inputList[k] : k \in 1..Len(inputList)}
             phraseWords == SplitWhitespace(phraseContent)
             wordMatches == Cardinality({k \in 1..Len(phraseWords) :
                                            phraseWords[k] \in inputWords})
         IN  IF wordMatches > 0
             THEN [matched |-> TRUE,
                   score |-> <<wordMatches,
                               2 * Max2(Cardinality(inputWords), Len(phraseWords))>>]
             ELSE [matched |-> FALSE, score |-> <<0, 1>>]

\* the matches before the sort: [id, score] in phrase order
PhraseMatches(ns, input) ==
    LET normalized == Trim(ToLowerCase(input))
        ps == getPhraseNodes(ns)
        scored == [i \in 1..Len(ps) |->
                     [id |-> ps[i],
                      m |-> MatchScore(ToLowerCase(getNode(ns, ps[i]).content),
                                       normalized)]]
        kept == SelectSeq(scored, LAMBDA r : r.m.matched)
    IN  [i \in 1..Len(kept) |-> [id |-> kept[i].id, score |-> kept[i].m.score]]

\* the ids of the matching phrases, best first
findMatchingPhrases(ns, input) ==
    LET sorted == SortByScoreDesc(PhraseMatches(ns, input))
    IN  [i \in 1..Len(sorted) |-> sorted[i].id]

\* the ids of the ancestors of nodeId, nearest first, over at most `fuel` links
RECURSIVE ParentChainFrom(_, _, _)
ParentChainFrom(ns, nodeId, fuel) ==
    IF fuel = 0 \/ ~HasNode(ns, nodeId) THEN <<>>
    ELSE LET parentId == getNode(ns, nodeId).parentId
         IN  IF parentId # Null /\ HasNode(ns, parentId)
             THEN <<parentId>> \o ParentChainFrom(ns, parentId, fuel - 1)
             ELSE <<>>

-----------------------------------------------------------------------------
(* Module 6: Stability Filter                                              *)

passesCurvatureCheck(curvature) == Abs(curvature) < curvatureThreshold

passesMinimalLengthCheck(candidate) ==
    Len(candidate.content) > 0 /\ Len(candidate.nodeIds) > 0

\* the innermost `if` of the loop of passesParentDominanceCheck is reached for
\* nodeId: a stored phrase whose stored parent is more than 1.5 times as stable
DominanceFlagged(ns, nodeId) ==
    /\ HasNode(ns, nodeId)
    /\ getNode(ns, nodeId).parentId # Null
    /\ HasNode(ns, getNode(ns, nodeId).parentId)
    /\ getNode(ns, getNode(ns, nodeId).parentId).stabilityWeight * 10
          > getNode(ns, nodeId).stabilityWeight * 15
    /\ getNode(ns, nodeId).type = "phrase"

\* passesParentDominanceCheck returning false for a flagged node
passesParentDominanceCheckRejecting(ns, nodeIds) ==
    \A k \in 1..Len(nodeIds) : ~DominanceFlagged(ns, nodeIds[k])

\* every path through the loop body goes on to the next node id, the flagged
\* one by its `continue`, and the method returns true after the loop
passesParentDominanceCheck(ns, nodeIds) ==
    \A k \in 1..Len(nodeIds) :
        IF DominanceFlagged(ns, nodeIds[k]) THEN TRUE ELSE TRUE

passesStabilityThreshold(score) == score > stabilityThreshold

isStable(ns, candidate) ==
    /\ passesCurvatureCheck(candidate.curvature)
    /\ passesMinimalLengthCheck(candidate)
    /\ passesParentDominanceCheck(ns, candidate.nodeIds)
    /\ passesStabilityThreshold(candidate.score)

dayInMs == 24 * 60 * 60 * 1000

\* usageWeight / (age + 1) < 0.1 with age = (currentTime - createdAt) / dayInMs:
\* usageWeight, in thousandths, times 864000 is below the age in ms plus a day
UsageScoreLow(node, currentTime) ==
    node.usageWeight <= 100 + (currentTime - node.createdAt - 1) \div (dayInMs \div 100)

\* the nodes getUnstableNodes returns at the clock reading currentTime
getUnstableNodes(ns, currentTime) ==
    SelectSeq(ns, LAMBDA node :
        UsageScoreLow(node, currentTime) /\ node.stabilityWeight < 500)

-----------------------------------------------------------------------------
(* Module 5: Response Selector                                             *)

calculateScore(S, responseId, matchId) ==
    LET response == getNode(S.nodes, responseId)
        es == getSequentialEdges(S.edges, matchId)
        hit == SelectSeq(es, LAMBDA e : e.toId = responseId)
        linkStrength == IF Len(hit) > 0 THEN hit[1].strength ELSE 0
        stabilityBonus == Quot(response.stabilityWeight * 3, 10)
        usageBonus == Min2(Quot(response.usageWeight, 10), 300)
        curvaturePenalty == Quot(Abs(response.curvatureSignature), 10)
    IN  linkStrength + stabilityBonus + usageBonus - curvaturePenalty

calculateChainScore(ns, chain) ==
    IF Len(chain) = 0 THEN 0
    ELSE Quot(SumSeq([i \in 1..Len(chain) |->
                 Quot(Quot(getNode(ns, chain[i]).stabilityWeight
                             * (Milli - (i - 1) * 200), Milli)
                        * getNode(ns, chain[i]).usageWeight, Milli)]),
              Len(chain))

\* the loop of buildChain from iteration i on; next is the strongest link of
\* currentId
RECURSIVE ChainFrom(_, _, _, _, _, _)
ChainFrom(S, currentId, next, visited, i, maxLength) ==
    IF i >= maxLength \/ currentId \in visited THEN <<>>
    ELSE IF next = Null \/ getNode(S.nodes, next).type # "phrase" THEN <<>>
    ELSE <<next>> \o ChainFrom(S, next, getStrongestLink(S, next),
                               visited \cup {currentId}, i + 1, maxLength)

buildChain(S, startId, maxLength) ==
    ChainFrom(S, startId, getStrongestLink(S, startId), {}, 0, maxLength)

\* the direct candidate of one match, if it has a strongest link
DirectCandidate(S, matchId, nextPhrase) ==
    IF nextPhrase # Null
    THEN <<[nodeIds |-> <<nextPhrase>>,
            content |-> getNode(S.nodes, nextPhrase).content,
            score |-> calculateScore(S, nextPhrase, matchId),
            curvature |-> getNode(S.nodes, nextPhrase).curvatureSignature]>>
    ELSE <<>>

\* the chain candidate of one match, if its chain is not empty
ChainCandidate(ns, chain) ==
    IF Len(chain) > 0
    THEN <<[nodeIds |-> chain,
            content |-> JoinSpace([i \in 1..Len(chain) |-> getNode(ns, chain[i]).content]),
            score |-> calculateChainScore(ns, chain),
            curvature |-> Quot(SumSeq([i \in 1..Len(chain) |->
                                  getNode(ns, chain[i]).curvatureSignature]),
                               Len(chain))]>>
    ELSE <<>>

\* the candidates one match contributes
CandidatesOf(S, matchId) ==
    DirectCandidate(S, matchId, getStrongestLink(S, matchId))
    \o ChainCandidate(S.nodes, buildChain(S, matchId, 3))

RECURSIVE CandidatesFrom(_, _, _)
CandidatesFrom(S, matches, i) ==
    IF i > Len(matches) THEN <<>>
    ELSE CandidatesOf(S, matches[i]) \o CandidatesFrom(S, matches, i + 1)

buildCandidates(S, matches) == CandidatesFrom(S, matches, 1)

\* the content of the known words of the input joined by spaces; the empty
\* string stands for null too (both are falsy where the result is used)
constructFromWords(ns, input) ==
    LET inputWords == SplitWhitespace(ToLowerCase(input))
        known == SelectSeq(inputWords, LAMBDA w : findNodeByContent(ns, w) # 0)
        knownWords == [i \in 1..Len(known) |->
                          ns[findNodeByContent(ns, known[i])].content]
    IN  IF Len(knownWords) = 0 THEN <<>> ELSE JoinSpace(knownWords)

\* SelectBest with the comparator of the sort reversed (a.score - b.score)
SelectBestAscending(matches, stable) ==
    IF Len(stable) > 0
    THEN [fallback |-> FALSE,
          result |-> SortByKeyDesc([i \in 1..Len(stable) |->
                        [content |-> stable[i].content, key |-> -stable[i].score]])[1].content,
          matches |-> <<>>]
    ELSE [fallback |-> TRUE, result |-> <<>>, matches |-> matches]

\* the best stable candidate's content, or the fallback over the matches
SelectBest(matches, stable) ==
    IF Len(stable) > 0
    THEN [fallback |-> FALSE,
          result |-> SortByKeyDesc([i \in 1..Len(stable) |->
                        [content |-> stable[i].content, key |-> stable[i].score]])[1].content,
          matches |-> <<>>]
    ELSE [fallback |-> TRUE, result |-> <<>>, matches |-> matches]

\* generateResponse once findMatchingPhrases gave matches
RespondTo(S, input, matches, words) ==
    IF Len(matches) = 0
    THEN [fallback |-> FALSE,
          result |-> IF words # <<>> THEN words ELSE input,
          matches |-> <<>>]
    ELSE SelectBest(matches,
                    SelectSeq(buildCandidates(S, matches),
                              LAMBDA c : isStable(S.nodes, c)))

\* generateResponse up to its call of getFallbackResponse:
\* [fallback |-> FALSE, result] or [fallback |-> TRUE, matches]
generateResponse(S, input) ==
    IF Len(S.nodes) = 0 THEN [fallback |-> FALSE, result |-> input, matches |-> <<>>]
    ELSE RespondTo(S, input, findMatchingPhrases(S.nodes, input),
                   constructFromWords(S.nodes, input))

-----------------------------------------------------------------------------
(* UQRC_LLM: the facade                                                    *)

\* the new Field State the loop of evolveField computes for one created node
NewFieldState(S, id, currentState, hist) ==
    LET neighbors == getNeighbors(S, id)
        neighborFieldValues ==
            [k \in 1..Len(neighbors) |-> getNode(S.nodes, neighbors[k]).fieldValue]
        neighborCurvatures ==
            [k \in 1..Len(neighbors) |->
                getNode(S.nodes, neighbors[k]).curvatureSignature]
    IN  updateField(currentState, getNode(S.nodes, id),
                    neighborFieldValues, neighborCurvatures, hist)

\* the body of the loop of evolveField for one created node
EvolveNode(S, id, currentState, hist) ==
    LET newState == NewFieldState(S, id, currentState, hist)
    IN  updateNodeFieldValue(updateFieldState(S, newState), id, newState.u)

\* the loop of evolveField over the created nodes; currentState and hist are
\* the values read before the loop
RECURSIVE EvolveFrom(_, _, _, _, _)
EvolveFrom(S, created, i, currentState, hist) ==
    IF i > Len(created) THEN S
    ELSE Bind(EvolveNode(S, created[i], currentState, hist), LAMBDA S2 :
              EvolveFrom(S2, created, i + 1, currentState, hist))

\* the Field States the loop of evolveField stores, one per created node, in
\* the order of the replacements
RECURSIVE FieldStatesFrom(_, _, _, _, _)
FieldStatesFrom(S, created, i, currentState, hist) ==
    IF i > Len(created) THEN <<>>
    ELSE Bind(EvolveNode(S, created[i], currentState, hist), LAMBDA S2 :
              <<S2.fieldState>> \o FieldStatesFrom(S2, created, i + 1, currentState, hist))

evolveField(S, input, t) ==
    Bind(processInput(S, input, t), LAMBDA r :
    IF Len(r.created) = 0 THEN r.S
    ELSE EvolveFrom(r.S, r.created, 1, r.S.fieldState, r.S.stabilityHistory))

\* the loop of reinforceNodes without the cap of the stability weight
RECURSIVE ReinforceFromUncapped(_, _, _)
ReinforceFromUncapped(ns, ids, i) ==
    IF i > Len(ids) THEN ns
    ELSE IF HasNode(ns, ids[i])
         THEN ReinforceFromUncapped(
                  [ns EXCEPT ![IndexOfId(ns, ids[i])].stabilityWeight = @ + 100,
                             ![IndexOfId(ns, ids[i])].usageWeight = @ + 500],
                  ids, i + 1)
         ELSE ReinforceFromUncapped(ns, ids, i + 1)

\* the loop of reinforceNodes over the ids of the matched phrases
RECURSIVE ReinforceFrom(_, _, _)
ReinforceFrom(ns, ids, i) ==
    IF i > Len(ids) THEN ns
    ELSE IF HasNode(ns, ids[i])
         THEN ReinforceFrom(
                  [ns EXCEPT ![IndexOfId(ns, ids[i])].stabilityWeight =
                                 Min2(@ + 100, 2000),
                             ![IndexOfId(ns, ids[i])].usageWeight = @ + 500],
                  ids, i + 1)
         ELSE ReinforceFrom(ns, ids, i + 1)

reinforceNodes(S, prompt, response) ==
    LET promptPhrases == findMatchingPhrases(S.nodes, prompt)
        responsePhrases == findMatchingPhrases(S.nodes, response)
    IN  [S EXCEPT !.nodes = ReinforceFrom(S.nodes, promptPhrases \o responsePhrases, 1)]

\* the store after learnFrom's graph and field steps
trainAndEvolve(S, prompt, response, t) ==
    Bind(processTrainingPair(S, prompt, response, t), LAMBDA S1 :
    Bind(evolveField(S1, prompt, t), LAMBDA S2 :
    evolveField(S2, response, t)))

\* the store after learnFrom's graph, field and reinforcement steps
learnFromStore(S, prompt, response, t) ==
    Bind(trainAndEvolve(S, prompt, response, t), LAMBDA S3 :
    reinforceNodes(S3, prompt, response))

\* the training log after learnFrom's push, dropping the new entry rather
\* than the oldest from a log longer than 100
pushLogPop(log, prompt, response, t) ==
    IF Len(log) + 1 > 100 THEN log
    ELSE Append(log, [prompt |-> prompt, response |-> response, timestamp |-> t])

\* the training log after learnFrom's push and shift
pushLog(log, prompt, response, t) ==
    IF Len(log) + 1 > 100
    THEN Tail(Append(log, [prompt |-> prompt, response |-> response, timestamp |-> t]))
    ELSE Append(log, [prompt |-> prompt, response |-> response, timestamp |-> t])

\* Array.prototype.reverse of a copy
Reversed(xs) == [i \in 1..Len(xs) |-> xs[Len(xs) - i + 1]]

\* UQRC_LLM.getMemories
getMemories(log) == Reversed(log)

\* UQRC_LLM.getPhase over the store's getStats
getPhase(S) ==
    IF Len(S.nodes) = 0 THEN "A - Dead State"
    ELSE IF Len(getPhraseNodes(S.nodes)) < 5 THEN "B - Node Creation"
    ELSE IF Len(S.edges) < 10 THEN "C - Neighborhood Growth"
    ELSE IF S.fieldState.stability > 700 THEN "D - Field Evolution"
    ELSE IF Len(getPhraseNodes(S.nodes)) > 20 THEN "E - Response Loop"
    ELSE "F - Multi-Phrase Chain"

\* the store after respond's graph and field steps
respondStore(S, prompt, t) ==
    Bind(processInput(S, prompt, t), LAMBDA r : evolveField(r.S, prompt, t))

-----------------------------------------------------------------------------
(* The state machine                                                       *)

Store == [nodes |-> nodes, edges |-> edges, fieldState |-> fieldState,
          stabilityHistory |-> stabilityHistory, storage |-> storage]

SetStore(S) ==
    /\ nodes' = S.nodes
    /\ edges' = S.edges
    /\ fieldState' = S.fieldState
    /\ stabilityHistory' = S.stabilityHistory
    /\ storage' = S.storage

IsDead ==
    /\ nodes = <<>>
    /\ edges = <<>>
    /\ fieldState = DeadFieldState
    /\ stabilityHistory = <<>>
    /\ trainingLog = <<>>

NoWalk == [matches |-> <<>>, i |-> 0, current |-> Null, bestNode |-> Null,
           bestStability |-> 0, input |-> <<>>]

NoLog == [present |-> FALSE, log |-> <<>>]

NoCandidate == [nodeIds |-> <<>>, content |-> <<>>, score |-> 0, curvature |-> 0]

Call(op, prompt, response, result, dead, done) ==
    [op |-> op, prompt |-> prompt, response |-> response, result |-> result,
     dead |-> dead, done |-> done]

\* the texts the callers pass
Hello == <<"h", "e", "l", "l", "o">>
HiThere == <<"h", "i", " ", "t", "h", "e", "r", "e">>

RespondInputs ==
    { <<"a", "b">>, <<"a", "b", "c">>, <<" ", "a">>, <<>>, <<" ">>, Hello }

TrainingPairs ==
    { <<Hello, HiThere>>, <<(<<"a">>), (<<"a", "b">>)>>, <<(<<"a", "b">>), (<<"a">>)>> }

Init ==
    /\ nodes = <<>>
    /\ edges = <<>>
    /\ fieldState = DeadFieldState
    /\ stabilityHistory = <<>>
    /\ storage = NoSnapshot
    /\ trainingLog = <<>>
    /\ storedLog = NoLog
    /\ now = 0
    /\ pc = "idle"
    /\ walk = NoWalk
    /\ history = <<>>

\* UQRC_LLM.respond, up to the return or to the entry of getFallbackResponse
RespondCall(prompt) ==
    /\ pc = "idle"
    /\ \E S \in {respondStore(Store, prompt, now)} :
        \E g \in {generateResponse(S, prompt)} :
           /\ SetStore(S)
           /\ IF g.fallback
              THEN /\ pc' = "fallback"
                   /\ walk' = [matches |-> g.matches, i |-> 1,
                               current |-> g.matches[1], bestNode |-> Null,
                               bestStability |-> 0, input |-> prompt]
                   /\ history' = Append(history,
                          Call("respond", prompt, <<>>, <<>>, IsDead, FALSE))
              ELSE /\ pc' = "idle"
                   /\ walk' = NoWalk
                   /\ history' = Append(history,
                          Call("respond", prompt, <<>>, g.result, IsDead, TRUE))
    /\ UNCHANGED <<trainingLog, storedLog, now>>

Respond(prompt) ==
    /\ Len(history) < MaxCalls
    /\ RespondCall(prompt)

\* one iteration of `while (current)` in getFallbackResponse
FallbackWalk ==
    /\ pc = "fallback"
    /\ walk.current # Null
    /\ LET current == getNode(nodes, walk.current)
           better == current.stabilityWeight > walk.bestStability
       IN  walk' = [walk EXCEPT
                      !.bestStability = IF better THEN current.stabilityWeight ELSE @,
                      !.bestNode = IF better THEN current.id ELSE @,
                      !.current = IF current.parentId # Null
                                     /\ HasNode(nodes, current.parentId)
                                  THEN current.parentId ELSE Null]
    /\ UNCHANGED <<nodes, edges, fieldState, stabilityHistory, storage,
                   trainingLog, storedLog, now, pc, history>>

\* the next matched node of `for (const node of matchedNodes)`
FallbackNext ==
    /\ pc = "fallback"
    /\ walk.current = Null
    /\ walk.i < Len(walk.matches)
    /\ walk' = [walk EXCEPT !.i = @ + 1, !.current = walk.matches[walk.i + 1]]
    /\ UNCHANGED <<nodes, edges, fieldState, stabilityHistory, storage,
                   trainingLog, storedLog, now, pc, history>>

\* getFallbackResponse returns, and generateResponse and respond with it
FallbackReturn ==
    /\ pc = "fallback"
    /\ walk.current = Null
    /\ walk.i >= Len(walk.matches)
    /\ history' = [history EXCEPT ![Len(history)] =
           [@ EXCEPT !.done = TRUE,
                     !.result = IF walk.bestNode # Null
                                THEN getNode(nodes, walk.bestNode).content
                                ELSE walk.input]]
    /\ pc' = "idle"
    /\ walk' = NoWalk
    /\ UNCHANGED <<nodes, edges, fieldState, stabilityHistory, storage,
                   trainingLog, storedLog, now>>

\* UQRC_LLM.learnFrom
LearnCall(prompt, response) ==
    /\ pc = "idle"
    /\ SetStore(learnFromStore(Store, prompt, response, now))
    /\ trainingLog' = pushLog(trainingLog, prompt, response, now)
    /\ storedLog' = [present |-> TRUE, log |-> trainingLog']
    /\ history' = Append(history, Call("learnFrom", prompt, response, <<>>, IsDead, TRUE))
    /\ UNCHANGED <<now, pc, walk>>

LearnFrom(prompt, response) ==
    /\ Len(history) < MaxCalls
    /\ LearnCall(prompt, response)

\* UQRC_LLM.clearMemory
ClearMemory ==
    /\ pc = "idle"
    /\ Len(history) < MaxCalls
    /\ SetStore(clear(Store))
    /\ trainingLog' = <<>>
    /\ storedLog' = NoLog
    /\ history' = Append(history, Call("clearMemory", <<>>, <<>>, <<>>, IsDead, TRUE))
    /\ UNCHANGED <<now, pc, walk>>

\* the clock of Date.now() advances between two calls
Tick ==
    /\ pc = "idle"
    /\ now < MaxClock
    /\ now' = now + 1
    /\ UNCHANGED <<nodes, edges, fieldState, stabilityHistory, storage,
                   trainingLog, storedLog, pc, walk, history>>

Next ==
    \/ \E x \in RespondInputs : Respond(x)
    \/ FallbackWalk
    \/ FallbackNext
    \/ FallbackReturn
    \/ \E pr \in TrainingPairs : LearnFrom(pr[1], pr[2])
    \/ ClearMemory
    \/ Tick

Spec == Init /\ [][Next]_vars

\* a loop that is running keeps running: the walk of getFallbackResponse is
\* never left suspended
FairSpec ==
    Spec /\ WF_vars(FallbackWalk) /\ WF_vars(FallbackNext) /\ WF_vars(FallbackReturn)

-----------------------------------------------------------------------------
(* The Memory Store called directly: createNode and createEdge             *)

\* history holds the last direct call only, numbered
StoreCall(op, content, type, fromId, toId, ret) ==
    [op |-> op, content |-> content, type |-> type, fromId |-> fromId,
     toId |-> toId, ret |-> ret,
     n |-> IF history = <<>> THEN 1 ELSE history[1].n + 1]

StoreCallsMade == IF history = <<>> THEN 0 ELSE history[1].n

StoreContents == { <<"a">>, <<" ", "A">>, <<"_", "a">> }

StoreTypes == {"word", "phrase"}

\* an id no node has
GhostId == <<"word", <<"_">>, 0>>

StoredIds == {nodes[i].id : i \in 1..Len(nodes)}

StoreCreateNode(content, type, parentId) ==
    /\ StoreCallsMade < MaxStoreCalls
    /\ LET r == createNode(Store, content, type, parentId, now)
       IN  /\ SetStore(r.S)
           /\ history' = <<StoreCall("createNode", content, type, Null, Null, r.id)>>
    /\ UNCHANGED <<trainingLog, storedLog, now, pc, walk>>

StoreCreateEdge(fromId, toId, isSequential) ==
    /\ StoreCallsMade < MaxStoreCalls
    /\ SetStore(createEdge(Store, fromId, toId, isSequential))
    /\ history' = <<StoreCall("createEdge", <<>>, "", fromId, toId, Null)>>
    /\ UNCHANGED <<trainingLog, storedLog, now, pc, walk>>

StoreNext ==
    \/ \E content \in StoreContents, type \in StoreTypes :
          StoreCreateNode(content, type, Null)
    \/ \E fromId, toId \in StoredIds \cup {GhostId} :
          \E isSequential \in BOOLEAN : StoreCreateEdge(fromId, toId, isSequential)
    \/ Tick

StoreSpec == Init /\ [][StoreNext]_vars

-----------------------------------------------------------------------------
(* The facade called many times over: the field histories fill up          *)

FieldInputs == { <<"a">>, <<"a", "b">> }

FieldPairs == { <<(<<"a">>), (<<"b">>)>>, <<(<<"b">>), (<<"a">>)>> }

FieldLearn(prompt, response) ==
    /\ Len(history) < MaxFieldCalls
    /\ LearnCall(prompt, response)

FieldRespond(prompt) ==
    /\ Len(history) < MaxFieldCalls
    /\ RespondCall(prompt)

FieldNext ==
    \/ \E x \in FieldInputs : FieldRespond(x)
    \/ \E pr \in FieldPairs : FieldLearn(pr[1], pr[2])
    \/ FallbackWalk
    \/ FallbackNext
    \/ FallbackReturn

FieldSpec == Init /\ [][FieldNext]_vars

-----------------------------------------------------------------------------
(* The engine constructed again over what localStorage holds               *)

\* new UQRC_LLM(): the page is loaded again
Restart ==
    /\ pc = "idle"
    /\ Len(history) < MaxCalls
    /\ SetStore(construct(storage))
    /\ trainingLog' = IF storedLog.present THEN storedLog.log ELSE <<>>
    /\ history' = Append(history, Call("restart", <<>>, <<>>, <<>>, IsDead, TRUE))
    /\ UNCHANGED <<storedLog, now, pc, walk>>

IsMalformed(snap) ==
    snap.present /\ (snap = GarbledSnapshot \/ FirstBad(snap.nodes) # 0)

SnapshotDamages == {"text", "record"}

\* the stored snapshot is damaged outside the engine: its text is cut, or a
\* null follows its first node record
DamageSnapshot(damage) ==
    /\ pc = "idle"
    /\ storage.present
    /\ ~IsMalformed(storage)
    /\ Len(storage.nodes) > 0
    /\ storage' = IF damage = "text" THEN GarbledSnapshot
                  ELSE [storage EXCEPT !.nodes = <<@[1], JsonNull>> \o Tail(@)]
    /\ UNCHANGED <<nodes, edges, fieldState, stabilityHistory, trainingLog,
                   storedLog, now, pc, walk, history>>

PersistInputs == { <<"a", "b">>, <<"a", "b", "c">> }

PersistPairs == { <<Hello, HiThere>>, <<HiThere, HiThere>> }

PersistNext ==
    \/ \E x \in PersistInputs : Respond(x)
    \/ FallbackWalk
    \/ FallbackNext
    \/ FallbackReturn
    \/ \E pr \in PersistPairs : LearnFrom(pr[1], pr[2])
    \/ Restart
    \/ \E damage \in SnapshotDamages : DamageSnapshot(damage)

PersistSpec == Init /\ [][PersistNext]_vars

-----------------------------------------------------------------------------
(* learnFrom called until the training log is full, and getMemories        *)

\* history holds the last call only, numbered by the learnFrom calls made
LogCall(op, prompt, response, result, n) ==
    [op |-> op, prompt |-> prompt, response |-> response, result |-> result, n |-> n]

LogCallsMade == IF history = <<>> THEN 0 ELSE history[1].n

\* blank texts: the graph and the field stay as they are
LogPairs == { <<(<<" ">>), (<<>>)>> }

LogLearn(prompt, response) ==
    /\ pc = "idle"
    /\ LogCallsMade < MaxLogCalls
    /\ SetStore(learnFromStore(Store, prompt, response, now))
    /\ trainingLog' = pushLog(trainingLog, prompt, response, now)
    /\ storedLog' = [present |-> TRUE, log |-> trainingLog']
    /\ history' = <<LogCall("learnFrom", prompt, response, <<>>, LogCallsMade + 1)>>
    /\ UNCHANGED <<now, pc, walk>>

GetMemories ==
    /\ pc = "idle"
    /\ history' = <<LogCall("getMemories", <<>>, <<>>, getMemories(trainingLog),
                            LogCallsMade)>>
    /\ UNCHANGED <<nodes, edges, fieldState, stabilityHistory, storage,
                   trainingLog, storedLog, now, pc, walk>>

LogNext ==
    \/ \E pr \in LogPairs : LogLearn(pr[1], pr[2])
    \/ GetMemories
    \/ Tick

LogSpec == Init /\ [][LogNext]_vars

-----------------------------------------------------------------------------
(* The Stability Filter called directly: isStable over a store whose nodes *)
(* have parents and have been reinforced                                   *)

\* history holds the last call only, numbered by the store calls made
FilterCall(op, candidate, ret, n) ==
    [op |-> op, candidate |-> candidate, ret |-> ret, n |-> n]

FilterCallsMade == IF history = <<>> THEN 0 ELSE history[1].n

FilterContents == { <<"a">>, <<"a", "b">> }

\* the candidates handed to isStable: curvatures and scores at and next to
\* the thresholds, an empty and a non-empty content, and no node ids or the
\* ids of all stored nodes followed by an id that is not stored
FilterCandidates ==
    [curvature : {curvatureThreshold - 1, curvatureThreshold, -curvatureThreshold},
     content : { <<>>, <<"a">> },
     score : {stabilityThreshold, stabilityThreshold + 1},
     nodeIds : { <<>>, [i \in 1..Len(nodes) |-> nodes[i].id] \o <<GhostId>> }]

FilterCreateNode(content, type, parentId) ==
    /\ FilterCallsMade < MaxFilterCalls
    /\ SetStore(createNode(Store, content, type, parentId, now).S)
    /\ history' = <<FilterCall("createNode", NoCandidate, FALSE, FilterCallsMade + 1)>>
    /\ UNCHANGED <<trainingLog, storedLog, now, pc, walk>>

\* the loop of reinforceNodes over a node that matched one text or both
FilterReinforce(ids) ==
    /\ FilterCallsMade < MaxFilterCalls
    /\ SetStore([Store EXCEPT !.nodes = ReinforceFrom(nodes, ids, 1)])
    /\ history' = <<FilterCall("reinforce", NoCandidate, FALSE, FilterCallsMade + 1)>>
    /\ UNCHANGED <<trainingLog, storedLog, now, pc, walk>>

FilterIsStable(candidate) ==
    /\ history' = <<FilterCall("isStable", candidate, isStable(nodes, candidate),
                               FilterCallsMade)>>
    /\ UNCHANGED <<nodes, edges, fieldState, stabilityHistory, storage,
                   trainingLog, storedLog, now, pc, walk>>

FilterNext ==
    \/ \E content \in FilterContents, type \in StoreTypes :
          \E parentId \in StoredIds \cup {Null} :
             FilterCreateNode(content, type, parentId)
    \/ \E id \in StoredIds : \E ids \in { <<id>>, <<id, id>> } : FilterReinforce(ids)
    \/ \E candidate \in FilterCandidates : FilterIsStable(candidate)

FilterSpec == Init /\ [][FilterNext]_vars

-----------------------------------------------------------------------------
(* Nodes created, reinforced up to the cap and left to age, and            *)
(* getUnstableNodes over them                                              *)

\* history holds the last call only, numbered by the store calls made
AgingCall(op, result, n) == [op |-> op, result |-> result, n |-> n]

AgingCallsMade == IF history = <<>> THEN 0 ELSE history[1].n

AgingContents == { <<"a">>, <<"b">> }

AgingCreateNode(content) ==
    /\ AgingCallsMade < MaxAgingCalls
    /\ SetStore(createNode(Store, content, "phrase", Null, now).S)
    /\ history' = <<AgingCall("createNode", <<>>, AgingCallsMade + 1)>>
    /\ UNCHANGED <<trainingLog, storedLog, now, pc, walk>>

\* the loop of reinforceNodes over a node that matched one text or both
AgingReinforce(ids) ==
    /\ AgingCallsMade < MaxAgingCalls
    /\ SetStore([Store EXCEPT !.nodes = ReinforceFrom(nodes, ids, 1)])
    /\ history' = <<AgingCall("reinforce", <<>>, AgingCallsMade + 1)>>
    /\ UNCHANGED <<trainingLog, storedLog, now, pc, walk>>

\* twenty days go by on the clock of Date.now()
AgingDaysPass ==
    /\ now < 20 * dayInMs
    /\ now' = now + 20 * dayInMs
    /\ UNCHANGED <<nodes, edges, fieldState, stabilityHistory, storage,
                   trainingLog, storedLog, pc, walk, history>>

AgingGetUnstableNodes ==
    /\ history' = <<AgingCall("getUnstableNodes", getUnstableNodes(nodes, now),
                              AgingCallsMade)>>
    /\ UNCHANGED <<nodes, edges, fieldState, stabilityHistory, storage,
                   trainingLog, storedLog, now, pc, walk>>

AgingNext ==
    \/ \E content \in AgingContents : AgingCreateNode(content)
    \/ \E id \in StoredIds : \E ids \in { <<id>>, <<id, id>> } : AgingReinforce(ids)
    \/ AgingDaysPass
    \/ AgingGetUnstableNodes

AgingSpec == Init /\ [][AgingNext]_vars

-----------------------------------------------------------------------------
(* Properties                                                              *)

Normalized(s) == Trim(ToLowerCase(s))

LastCall == history[Len(history)]

IsBlank(s) == Trim(s) = <<>>

\* C1: on a cleared engine respond(x) returns exactly x for every non-empty x.
DeadStateEcho ==
    \A i \in 1..Len(history) :
        (history[i].op = "respond" /\ history[i].done /\ history[i].dead
            /\ history[i].prompt # <<>>)
        => history[i].result = history[i].prompt

\* C2: from a cleared engine, learnFrom("hello", "hi there") and then
\* respond("hello") returns "hi there".
TrainedResponseSurfaced ==
    \A i \in 1..(Len(history) - 1) :
        (/\ history[i].op = "learnFrom" /\ history[i].dead
         /\ history[i].prompt = Hello /\ history[i].response = HiThere
         /\ history[i + 1].op = "respond" /\ history[i + 1].prompt = Hello
         /\ history[i + 1].done)
        => history[i + 1].result = HiThere

TrainedResponseReturned ==
    /\ Len(history) = 2
    /\ history[1].op = "learnFrom" /\ history[1].dead
    /\ history[1].prompt = Hello /\ history[1].response = HiThere
    /\ history[2].op = "respond" /\ history[2].prompt = Hello
    /\ history[2].done /\ history[2].result = HiThere

\* C3: every call of respond and learnFrom terminates: a call that has
\* entered the ancestor walk of getFallbackResponse returns.
EveryCallTerminates == (pc = "fallback") ~> (pc = "idle")

\* C4: no two stored nodes have the same normalized content; createNode of a
\* content that exists returns the existing node, adds no node and changes
\* only that node's usage (+1) and lastUsedAt.
NoDuplicateContent ==
    \A i, j \in 1..Len(nodes) :
        Normalized(nodes[i].content) = Normalized(nodes[j].content) => i = j

CreateNodeDedupStep ==
    (history' # history /\ history'[1].op = "createNode")
    => LET c == history'[1]
           same == {i \in 1..Len(nodes) :
                       Normalized(nodes[i].content) = Normalized(c.content)}
       IN  same # {} =>
             \E e \in same :
                /\ c.ret = nodes[e].id
                /\ Len(nodes') = Len(nodes)
                /\ edges' = edges
                /\ fieldState' = fieldState
                /\ stabilityHistory' = stabilityHistory
                /\ \A j \in 1..Len(nodes) : j # e => nodes'[j] = nodes[j]
                /\ nodes'[e] = [nodes[e] EXCEPT !.usageWeight = @ + 1000,
                                                !.lastUsedAt = now]

IdempotentDedup == []NoDuplicateContent /\ [][CreateNodeDedupStep]_vars

DedupHappened ==
    /\ history # <<>>
    /\ history[1].op = "createNode"
    /\ history[1].type = "phrase"
    /\ Len(nodes) = 1
    /\ nodes[1].type = "word"
    /\ nodes[1].content # history[1].content
    /\ nodes[1].usageWeight = 2000
    /\ history[1].ret = nodes[1].id

\* C5: the store never holds two edges with the same ordered pair; the first
\* createEdge(a, b) on existing nodes creates the edge with strength 1.0, each
\* later one adds exactly 0.1, and every other edge, the reverse pair's
\* included, is left as it was.
NoDuplicateEdge ==
    \A i, j \in 1..Len(edges) :
        (edges[i].fromId = edges[j].fromId /\ edges[i].toId = edges[j].toId) => i = j

CreateEdgeStep ==
    (history' # history /\ history'[1].op = "createEdge"
        /\ history'[1].fromId \in StoredIds /\ history'[1].toId \in StoredIds)
    => LET c == history'[1]
           had == {i \in 1..Len(edges) :
                      edges[i].fromId = c.fromId /\ edges[i].toId = c.toId}
       IN  IF had = {}
           THEN /\ Len(edges') = Len(edges) + 1
                /\ SubSeq(edges', 1, Len(edges)) = edges
                /\ edges'[Len(edges')].fromId = c.fromId
                /\ edges'[Len(edges')].toId = c.toId
                /\ edges'[Len(edges')].strength = 1000
           ELSE /\ Len(edges') = Len(edges)
                /\ \A i \in 1..Len(edges) :
                      IF i \in had
                      THEN edges'[i].strength = edges[i].strength + 100
                      ELSE edges'[i] = edges[i]

EdgeStrengthening == []NoDuplicateEdge /\ [][CreateEdgeStep]_vars

EdgeStrengthened ==
    /\ history # <<>>
    /\ history[1].op = "createEdge"
    /\ history[1].fromId # history[1].toId
    /\ \E i \in 1..Len(edges) :
          /\ edges[i].fromId = history[1].fromId
          /\ edges[i].toId = history[1].toId
          /\ edges[i].strength = 1100

\* C6: after learnFrom(p, r) in which both texts yielded a phrase node, the
\* store holds an edge from p's phrase node to r's phrase node that is marked
\* sequential.
PhraseOf(text) ==
    LET hits == {i \in 1..Len(nodes) :
                    Normalized(nodes[i].content) = Normalized(text)
                    /\ nodes[i].type = "phrase"}
    IN  hits

SequentialTrainingEdge ==
    (history # <<>> /\ LastCall.op = "learnFrom")
    => \A p \in PhraseOf(LastCall.prompt), r \in PhraseOf(LastCall.response) :
          \E k \in 1..Len(edges) :
              /\ edges[k].fromId = nodes[p].id
              /\ edges[k].toId = nodes[r].id
              /\ edges[k].isSequential

\* C7: every node that has a parent points to an existing phrase node whose
\* lowercased content is a strict substring of the node's own content.
ParentInvariant ==
    \A i \in 1..Len(nodes) :
        nodes[i].parentId # Null
        => /\ HasNode(nodes, nodes[i].parentId)
           /\ getNode(nodes, nodes[i].parentId).type = "phrase"
           /\ Includes(ToLowerCase(nodes[i].content),
                       ToLowerCase(getNode(nodes, nodes[i].parentId).content))
           /\ ToLowerCase(nodes[i].content)
                 # ToLowerCase(getNode(nodes, nodes[i].parentId).content)

\* C8: node c is listed in node p's child references if and only if c's
\* parent reference is p.
ParentChildSymmetry ==
    \A p, c \in 1..Len(nodes) :
        (\E k \in 1..Len(nodes[p].childIds) : nodes[p].childIds[k] = nodes[c].id)
        <=> nodes[c].parentId = nodes[p].id

\* C9: respond(x) for an empty or whitespace-only x returns exactly x.
BlankInputEchoes ==
    \A i \in 1..Len(history) :
        (history[i].op = "respond" /\ history[i].done /\ IsBlank(history[i].prompt))
        => history[i].result = history[i].prompt

\* C10: respond (and the processInput it runs) with an empty or
\* whitespace-only text leaves the nodes, the edges, the Field State and the
\* stability history unchanged.
BlankRespondStep ==
    (history' # history /\ Len(history') = Len(history) + 1
        /\ history'[Len(history')].op = "respond"
        /\ IsBlank(history'[Len(history')].prompt))
    => UNCHANGED <<nodes, edges, fieldState, stabilityHistory>>

BlankInputIsNoOp == [][BlankRespondStep]_vars

BlankRespondOnFilledStore ==
    /\ history # <<>>
    /\ LastCall.op = "respond"
    /\ LastCall.prompt = <<" ">>
    /\ Len(nodes) > 0
    /\ Len(edges) > 0
    /\ fieldState.u # 0

\* C11: every string respond(x) returns is x itself or the content of one
\* node stored when it returns; it is never assembled from several contents.
NoNovelContent ==
    (history # <<>> /\ LastCall.op = "respond" /\ LastCall.done)
    => \/ LastCall.result = LastCall.prompt
       \/ \E i \in 1..Len(nodes) : nodes[i].content = LastCall.result


\* C12: after processInput(text) with a non-blank text (respond runs it on
\* its prompt), the node whose normalized content is that of the trimmed text
\* is a phrase node, and every token of the text has a node of kind word or
\* punctuation that is the target of a structural edge from that phrase node.
TokenLinked(p, token) ==
    \E n \in 1..Len(nodes) :
        /\ Normalized(nodes[n].content) = Normalized(token)
        /\ nodes[n].type \in {"word", "punctuation"}
        /\ \E k \in 1..Len(edges) :
              /\ edges[k].fromId = nodes[p].id
              /\ edges[k].toId = nodes[n].id
              /\ ~edges[k].isSequential

PhraseNodePerInput ==
    (history # <<>> /\ LastCall.op = "respond" /\ LastCall.done
        /\ ~IsBlank(LastCall.prompt))
    => \E p \in 1..Len(nodes) :
          /\ Normalized(nodes[p].content) = Normalized(LastCall.prompt)
          /\ nodes[p].type = "phrase"
          /\ \A k \in 1..Len(tokenize(Trim(LastCall.prompt))) :
                TokenLinked(p, tokenize(Trim(LastCall.prompt))[k])

\* C13: after any number of respond and learnFrom calls the Field State's gradients list
\* has at most 10 entries and the stability history at most 20, and a list
\* that is full drops its oldest entries first.
HistoriesWithinBounds ==
    /\ Len(fieldState.gradients) <= 10
    /\ Len(stabilityHistory) <= 20

\* new is old with n entries appended, cut to its last cap entries
AppendedAndCut(old, new, cap) ==
    \E n \in 0..Len(new) :
        /\ Len(new) = Min2(Len(old) + n, cap)
        /\ Len(new) - n <= Len(old)
        /\ SubSeq(new, 1, Len(new) - n) = LastK(old, Len(new) - n)

OldestDroppedFirst ==
    /\ AppendedAndCut(fieldState.gradients, fieldState'.gradients, 10)
    /\ AppendedAndCut(stabilityHistory, stabilityHistory', 20)

LogHoldsMostRecent ==
    /\ Len(trainingLog) = Min2(LogCallsMade, 100)
    /\ \A i \in 1..(Len(trainingLog) - 1) :
          trainingLog[i].timestamp <= trainingLog[i + 1].timestamp

LogStep ==
    /\ (history' # history /\ history'[1].op = "learnFrom")
       => /\ trainingLog'[Len(trainingLog')] =
                [prompt |-> history'[1].prompt, response |-> history'[1].response,
                 timestamp |-> now]
          /\ SubSeq(trainingLog', 1, Len(trainingLog') - 1)
                = LastK(trainingLog, Len(trainingLog') - 1)
    /\ (history' # history /\ history'[1].op = "getMemories")
       => /\ trainingLog' = trainingLog
          /\ Len(history'[1].result) = Len(trainingLog)
          /\ \A i \in 1..Len(trainingLog) :
                history'[1].result[i] = trainingLog[Len(trainingLog) + 1 - i]

TrainingLogIsBoundedFifo == []LogHoldsMostRecent /\ [][LogStep]_vars

OldestEntryEvicted ==
    /\ history # <<>>
    /\ history[1].op = "getMemories"
    /\ history[1].n = 101
    /\ Len(trainingLog) = 100
    /\ trainingLog[1].timestamp = 0
    /\ trainingLog[100].timestamp = 1
    /\ history[1].result[1].timestamp = 1

\* C15: after every createEdge(a, b) on existing nodes, the creating call and
\* every strengthening call, a's neighbor-strength entry for b and b's entry
\* for a equal the current strength of the edge (a, b).
HasLink(ns, id, other, strength) ==
    \E k \in 1..Len(getNode(ns, id).linkStrengths) :
        getNode(ns, id).linkStrengths[k] = <<other, strength>>

NeighborStrengthTracksEdge ==
    (history # <<>> /\ history[1].op = "createEdge"
        /\ history[1].fromId \in StoredIds /\ history[1].toId \in StoredIds)
    => \A i \in 1..Len(edges) :
          (edges[i].fromId = history[1].fromId /\ edges[i].toId = history[1].toId)
          => /\ HasLink(nodes, edges[i].fromId, edges[i].toId, edges[i].strength)
             /\ HasLink(nodes, edges[i].toId, edges[i].fromId, edges[i].strength)

\* C16: findMatchingPhrases(input) returns only phrases whose match score is
\* greater than 0, in order of non-increasing score, for every input, an
\* empty or whitespace-only one included.
RankedMatches(input) == SortByScoreDesc(PhraseMatches(nodes, input))

MatchesScorePositive ==
    \A input \in RespondInputs :
        /\ \A i \in 1..Len(RankedMatches(input)) :
              RankedMatches(input)[i].score[1] > 0
        /\ \A i \in 1..(Len(RankedMatches(input)) - 1) :
              ~FracLess(RankedMatches(input)[i].score,
                        RankedMatches(input)[i + 1].score)

\* C17: the reinforcement of one learnFrom call raises the stability of each
\* phrase node matching the prompt or the response by exactly 0.1 (capped at
\* 2.0) and its usage by exactly 0.5, also when the phrase matches both texts,
\* and leaves every other node as it was.
Reinforced(before, after, prompt, response) ==
    /\ Len(after) = Len(before)
    /\ \A i \in 1..Len(before) :
          IF \/ \E k \in 1..Len(findMatchingPhrases(before, prompt)) :
                    findMatchingPhrases(before, prompt)[k] = before[i].id
             \/ \E k \in 1..Len(findMatchingPhrases(before, response)) :
                    findMatchingPhrases(before, response)[k] = before[i].id
          THEN after[i] = [before[i] EXCEPT
                              !.stabilityWeight = Min2(@ + 100, 2000),
                              !.usageWeight = @ + 500]
          ELSE after[i] = before[i]

ReinforcedOnce ==
    (Len(history') = Len(history) + 1 /\ history'[Len(history')].op = "learnFrom")
    => Reinforced(trainAndEvolve(Store, history'[Len(history')].prompt,
                                 history'[Len(history')].response, now).nodes,
                  nodes', history'[Len(history')].prompt,
                  history'[Len(history')].response)

ReinforcementStep == [][ReinforcedOnce]_vars

\* C18: when the persisted snapshot is malformed, the store the constructor
\* builds from it is the empty dead state, never a partially loaded one.
MalformedLoadsNothing ==
    (Len(history') = Len(history) + 1 /\ history'[Len(history')].op = "restart"
        /\ IsMalformed(storage))
    => /\ nodes' = <<>>
       /\ edges' = <<>>
       /\ fieldState' = DeadFieldState
       /\ stabilityHistory' = <<>>

MalformedSnapshotAllOrNothing == [][MalformedLoadsNothing]_vars

\* C19: for every reachable store, saving it and then loading the snapshot
\* yields the same nodes with the same data (link strengths included), the
\* same edges in the same order, the same Field State and the same stability
\* history.
RoundTripIsIdentity ==
    /\ construct(Serialize(Store)).nodes = nodes
    /\ construct(Serialize(Store)).edges = edges
    /\ construct(Serialize(Store)).fieldState = fieldState
    /\ construct(Serialize(Store)).stabilityHistory = stabilityHistory

ReloadKeepsSavedStore ==
    (Len(history') = Len(history) + 1 /\ history'[Len(history')].op = "restart"
        /\ storage = Serialize(Store))
    => UNCHANGED <<nodes, edges, fieldState, stabilityHistory>>

SnapshotRoundTrip == []RoundTripIsIdentity /\ [][ReloadKeepsSavedStore]_vars

SavedStoreReloaded ==
    /\ Len(history) > 1
    /\ LastCall.op = "restart"
    /\ history[Len(history) - 1].op = "respond"
    /\ history[Len(history) - 1].done
    /\ storage = Serialize(Store)
    /\ Len(nodes) > 1
    /\ Len(edges) > 1
    /\ \E i \in 1..Len(nodes) : Len(nodes[i].linkStrengths) > 1
    /\ \E i \in 1..Len(nodes) : nodes[i].parentId # Null
    /\ fieldState.u # 0
    /\ stabilityHistory # <<>>

\* C20: clearMemory from any reachable state produces the dead state: no
\* nodes, no edges, the dead Field State, an empty stability history, an
\* empty training log and no durable snapshot; the respond or learnFrom that
\* follows behaves as on a brand-new engine.
ClearedToDeadState ==
    (Len(history') = Len(history) + 1 /\ history'[Len(history')].op = "clearMemory")
    => /\ nodes' = <<>>
       /\ edges' = <<>>
       /\ fieldState' = DeadFieldState
       /\ stabilityHistory' = <<>>
       /\ trainingLog' = <<>>
       /\ storage' = NoSnapshot
       /\ storedLog' = NoLog

StoreIsNext(S) ==
    /\ nodes' = S.nodes
    /\ edges' = S.edges
    /\ fieldState' = S.fieldState
    /\ stabilityHistory' = S.stabilityHistory
    /\ storage' = S.storage

AsOnNewEngine ==
    (history # <<>> /\ LastCall.op = "clearMemory"
        /\ Len(history') = Len(history) + 1)
    => /\ history'[Len(history')].op = "learnFrom"
          => /\ StoreIsNext(learnFromStore(construct(NoSnapshot),
                                           history'[Len(history')].prompt,
                                           history'[Len(history')].response, now))
             /\ trainingLog' = pushLog(<<>>, history'[Len(history')].prompt,
                                       history'[Len(history')].response, now)
       /\ history'[Len(history')].op = "respond"
          => /\ StoreIsNext(respondStore(construct(NoSnapshot),
                                         history'[Len(history')].prompt, now))
             /\ trainingLog' = <<>>

ClearMemoryResets == [][ClearedToDeadState /\ AsOnNewEngine]_vars

ClearedThenUsed ==
    /\ Len(history) = 3
    /\ history[1].op = "learnFrom"
    /\ history[2].op = "clearMemory"
    /\ ~history[2].dead
    /\ history[3].op = "respond"
    /\ history[3].done
    /\ Len(nodes) > 0

\* C21: isStable(candidate) is true exactly when |curvature| is below the
\* curvature threshold, the content and the node ids are non-empty and the
\* score is above the stability threshold; the parent-dominance check never
\* changes the result, whatever the stability weights and kinds of the
\* candidate's nodes and of their parents are.
IsStableIsFourChecks ==
    (history # <<>> /\ history[1].op = "isStable")
    => (history[1].ret
        <=> /\ Abs(history[1].candidate.curvature) < curvatureThreshold
            /\ history[1].candidate.content # <<>>
            /\ history[1].candidate.nodeIds # <<>>
            /\ history[1].candidate.score > stabilityThreshold)

FlaggedCandidateStable ==
    /\ history # <<>>
    /\ history[1].op = "isStable"
    /\ history[1].ret
    /\ \E k \in 1..Len(history[1].candidate.nodeIds) :
          DominanceFlagged(nodes, history[1].candidate.nodeIds[k])

\* C22: the parent relation is acyclic: following parent references from any
\* node reaches a node without a parent after finitely many steps, and no
\* node is its own ancestor.
ParentRelationAcyclic ==
    \A i \in 1..Len(nodes) :
        LET chain == ParentChainFrom(nodes, nodes[i].id, Len(nodes))
        IN  /\ Len(chain) < Len(nodes)
            /\ \A k \in 1..Len(chain) : chain[k] # nodes[i].id

\* C23: gradients are the increments of u: at every replacement of the Field
\* State during field evolution, one per node touched, the newest gradients
\* entry is the new u minus the u stored immediately before the replacement,
\* and exactly one entry is appended per replacement, up to the cap of 10.
\* states is the Field State stored before the loop of evolveField followed
\* by the Field States the loop stores.
IncrementsOfU(states) ==
    \A k \in 2..Len(states) :
        /\ Len(states[k].gradients) = Min2(Len(states[k - 1].gradients) + 1, 10)
        /\ states[k].gradients[Len(states[k].gradients)]
              = states[k].u - states[k - 1].u

RespondReplacements(prompt) ==
    LET r == processInput(processInput(Store, prompt, now).S, prompt, now)
    IN  <<r.S.fieldState>>
        \o FieldStatesFrom(r.S, r.created, 1, r.S.fieldState, r.S.stabilityHistory)

GradientsOfRespond ==
    (Len(history') = Len(history) + 1 /\ history'[Len(history')].op = "respond")
    => /\ IncrementsOfU(RespondReplacements(history'[Len(history')].prompt))
       /\ fieldState' = RespondReplacements(history'[Len(history')].prompt)[
                            Len(RespondReplacements(history'[Len(history')].prompt))]

GradientsAreIncrements == [][GradientsOfRespond]_vars

\* C24: the chain built from a matched phrase has at most 3 nodes, all of
\* kind phrase, and no node appears in it more than once, also when the
\* sequential edges between phrases form a self-loop or a cycle.
ChainOf(i) == buildChain(Store, nodes[i].id, 3)

ChainHasNoRepeat ==
    \A i \in 1..Len(nodes) :
        nodes[i].type = "phrase"
        => /\ Len(ChainOf(i)) <= 3
           /\ \A k \in 1..Len(ChainOf(i)) :
                 getNode(nodes, ChainOf(i)[k]).type = "phrase"
           /\ \A j, k \in 1..Len(ChainOf(i)) :
                 ChainOf(i)[j] = ChainOf(i)[k] => j = k

\* C25: when respond, learnFrom or clearMemory returns, restoring from the
\* persisted snapshot yields exactly the in-memory store: the same nodes,
\* every node's stability and usage weights and parent and child references
\* included, the same edges, Field State and stability history.
SnapshotIsCurrent ==
    (history # <<>> /\ LastCall.done
        /\ LastCall.op \in {"respond", "learnFrom", "clearMemory"})
    => /\ construct(storage).nodes = nodes
       /\ construct(storage).edges = edges
       /\ construct(storage).fieldState = fieldState
       /\ construct(storage).stabilityHistory = stabilityHistory

\* C26: createNode of a content whose normalized content is not stored
\* yields an id no stored node has, also at the same clock reading and when
\* the contents differ only in whitespace runs or underscores: the call adds
\* one node and leaves every stored node in its place.
CreateNodeAddsNode ==
    (/\ history' # history
     /\ history'[1].op = "createNode"
     /\ \A i \in 1..Len(nodes) :
           Normalized(nodes[i].content) # Normalized(history'[1].content))
    => /\ history'[1].ret \notin StoredIds
       /\ Len(nodes') = Len(nodes) + 1
       /\ \A i \in 1..Len(nodes) : nodes'[i] = nodes[i]

NodeIdsUnique == [][CreateNodeAddsNode]_vars

\* C27: in every state reachable from the dead state through respond,
\* learnFrom and clearMemory the Field State's stability is exactly 1.0 and
\* every stability-history entry is 1.0, so getPhase never reports the two
\* phases that require a stability not above 0.7.
FieldStabilityIsOne ==
    /\ fieldState.stability = 1000
    /\ \A k \in 1..Len(stabilityHistory) : stabilityHistory[k] = 1000
    /\ getPhase(Store) \notin {"E - Response Loop", "F - Multi-Phrase Chain"}

StabilityTestedInPhase ==
    /\ Len(stabilityHistory) > 3
    /\ fieldState.u # 0
    /\ getPhase(Store) = "D - Field Evolution"

\* C28: in every reachable state each node's stability weight lies in
\* [1.0, 2.0], and no operation lowers the stability weight of a node that
\* stays stored; getUnstableNodes, which requires a stability below 0.5,
\* returns an empty list in every reachable state and changes nothing.
StabilityWithinBounds ==
    \A i \in 1..Len(nodes) :
        nodes[i].stabilityWeight >= 1000 /\ nodes[i].stabilityWeight <= 2000

StabilityNotLowered ==
    \A i \in 1..Len(nodes), j \in 1..Len(nodes') :
        (nodes'[j].id = nodes[i].id /\ nodes'[j].content = nodes[i].content)
        => nodes'[j].stabilityWeight >= nodes[i].stabilityWeight

NoUnstableNodes ==
    /\ getUnstableNodes(nodes, now) = <<>>
    /\ (history' # history /\ history'[1].op = "getUnstableNodes")
       => /\ history'[1].result = <<>>
          /\ UNCHANGED <<nodes, edges, fieldState, stabilityHistory, storage,
                         trainingLog, storedLog>>

NodeStabilityBoundedMonotone ==
    []StabilityWithinBounds /\ [][StabilityNotLowered /\ NoUnstableNodes]_vars

AgedNodesQueried ==
    /\ history # <<>>
    /\ history[1].op = "getUnstableNodes"
    /\ \E i \in 1..Len(nodes) : nodes[i].stabilityWeight = 2000
    /\ \E i \in 1..Len(nodes) :
          UsageScoreLow(nodes[i], now) /\ nodes[i].stabilityWeight = 1000

\* C29: when at least one candidate built by generateResponse passes
\* isStable, the string returned is the content of a stable candidate whose
\* score is maximal among the stable candidates, the one built first among
\* those of maximal score; the fallback and the echo are used only when no
\* candidate is stable.
StableCandidates(S, input) ==
    SelectSeq(buildCandidates(S, findMatchingPhrases(S.nodes, input)),
              LAMBDA c : isStable(S.nodes, c))

\* the first position of a maximal score in a non-empty list of candidates
FirstBest(cands) ==
    CHOOSE k \in 1..Len(cands) :
        /\ \A j \in 1..Len(cands) : cands[j].score <= cands[k].score
        /\ \A j \in 1..(k - 1) : cands[j].score < cands[k].score

BestStableReturned ==
    (Len(history') = Len(history) + 1 /\ history'[Len(history')].op = "respond")
    => \A call \in {history'[Len(history')]} :
          \A stable \in {StableCandidates(respondStore(Store, call.prompt, now),
                                           call.prompt)} :
             stable # <<>>
             => /\ call.done
                /\ pc' = "idle"
                /\ call.result = stable[FirstBest(stable)].content

CandidateSelection == [][BestStableReturned]_vars

FirstBuiltOfTiedReturned ==
    /\ history # <<>>
    /\ LastCall.op = "respond"
    /\ LastCall.done
    /\ \E stable \in {StableCandidates(Store, LastCall.prompt)} :
          /\ stable # <<>>
          /\ \E k \in (FirstBest(stable) + 1)..Len(stable) :
                /\ stable[k].score = stable[FirstBest(stable)].score
                /\ stable[k].content # stable[FirstBest(stable)].content
          /\ LastCall.result = stable[FirstBest(stable)].content

====
